---- MODULE Spec2Model ----
(***************************************************************************)
(* A model of the campaign ledger of src/app.py: the document store        *)
(* (_campaign_path, _load_campaign, _save_campaign), the audit log         *)
(* (_log_event) and the mutation engine (mutate).                          *)
(*                                                                         *)
(* Python values are represented as follows.                               *)
(*   Optional[T]    <<>> for None / a missing key, <<x>> for the value x   *)
(*   str (text)     a sequence of one-character strings                    *)
(*   value: Any     a tagged record: [t |-> "null"], [t |-> "int", n],     *)
(*                  [t |-> "str", s] (s: the string as a sequence of JSON  *)
(*                  tokens), [t |-> "obj", f] (f: a function from keys to  *)
(*                  values)                                                *)
(***************************************************************************)
EXTENDS Integers, Sequences, FiniteSets, TLC

VARIABLES
    store,    \* DATA_DIR: file stem -> <<>> (no file) or <<document>>
    log,      \* LOG_FILE: the sequence of lines (entries) of logs.jsonl
    clock,    \* datetime.utcnow() truncated to whole seconds
    result,   \* what the last finished call gave its caller
    pc,       \* per worker: where it is inside mutate
    local     \* per worker: mutate's arguments and its `data`

vars == <<store, log, clock, result, pc, local>>

-----------------------------------------------------------------------------
(* Optional values and `x or default`.                                      *)

None == <<>>

Some(x) == <<x>>

\* `opt or dflt` for an Optional[int]: None and 0 both give dflt.
OrInt(opt, dflt) == IF opt = None \/ opt[1] = 0 THEN dflt ELSE opt[1]

\* `opt or ""` for an Optional[str].
OrText(opt) == IF opt = None THEN <<>> ELSE opt[1]

\* `opt or []` for an Optional[list].
OrList(opt) == IF opt = None THEN <<>> ELSE opt[1]

-----------------------------------------------------------------------------
(* JSON values, JSON tokens and json.loads on a string of tokens.           *)

JNull == [t |-> "null"]                      \* None / null

JInt(n) == [t |-> "int", n |-> n]

JStr(s) == [t |-> "str", s |-> s]            \* s: the text, as tokens

JObj(f) == [t |-> "obj", f |-> f]

EmptyObj == [k \in {} |-> JNull]

\* Tokens of a text.
TP(s) == [k |-> "p", s |-> s]                \* punctuation { } : ,

TS(c) == [k |-> "s", c |-> c]                \* a quoted string, c its content

TN(n) == [k |-> "n", n |-> n]                \* an integer literal

TNull == [k |-> "null"]                      \* null

TW(s) == [k |-> "w", s |-> s]                \* a bare word: not JSON

\* The characters a token stands for, and those of a text.
Spell(tok) ==
    CASE tok.k = "n" -> ToString(tok.n)
      [] tok.k = "null" -> "null"
      [] OTHER -> tok.s

RECURSIVE Spelling(_)
Spelling(toks) ==
    IF toks = <<>> THEN ""
    ELSE IF Head(toks).k = "s"
    THEN "\"" \o Spelling(Head(toks).c) \o "\"" \o Spelling(Tail(toks))
    ELSE Spell(Head(toks)) \o Spelling(Tail(toks))

IsScalarTok(tok) == tok.k \in {"s", "n", "null"}

ScalarOf(tok) ==
    CASE tok.k = "s" -> JStr(tok.c)
      [] tok.k = "n" -> JInt(tok.n)
      [] OTHER -> JNull

\* The members of an object from token i on: "key" : scalar , ... }
RECURSIVE JsonMembers(_, _, _)
JsonMembers(toks, i, acc) ==
    IF i + 2 > Len(toks) \/ toks[i].k # "s" \/ toks[i + 1] # TP(":")
       \/ ~IsScalarTok(toks[i + 2])
    THEN [ok |-> FALSE, v |-> JNull]
    ELSE LET key == Spelling(toks[i].c)
             val == ScalarOf(toks[i + 2])
             \* a repeated key keeps its last value
             acc2 == [k \in DOMAIN acc \cup {key} |->
                         IF k = key THEN val ELSE acc[k]]
         IN  IF i + 3 = Len(toks) /\ toks[i + 3] = TP("}")
             THEN [ok |-> TRUE, v |-> JObj(acc2)]
             ELSE IF i + 3 < Len(toks) /\ toks[i + 3] = TP(",")
             THEN JsonMembers(toks, i + 4, acc2)
             ELSE [ok |-> FALSE, v |-> JNull]

\* json.loads(s): [ok, v]; ok is FALSE where json.loads raises.
JsonLoads(toks) ==
    IF Len(toks) = 1 /\ IsScalarTok(toks[1])
    THEN [ok |-> TRUE, v |-> ScalarOf(toks[1])]
    ELSE IF Len(toks) = 2 /\ toks[1] = TP("{") /\ toks[2] = TP("}")
    THEN [ok |-> TRUE, v |-> JObj(EmptyObj)]
    ELSE IF Len(toks) > 2 /\ toks[1] = TP("{")
    THEN JsonMembers(toks, 2, EmptyObj)
    ELSE [ok |-> FALSE, v |-> JNull]

\* str(v)
StrOf(v) ==
    CASE v.t = "str" -> Spelling(v.s)
      [] v.t = "int" -> ToString(v.n)
      [] v.t = "null" -> "None"
      [] OTHER -> "{..}"

\* int(v): [ok, n, err]; a str converts when it is one integer literal.
IntOf(v) ==
    CASE v.t = "int" -> [ok |-> TRUE, n |-> v.n, err |-> ""]
      [] v.t = "str" ->
            IF Len(v.s) = 1 /\ v.s[1].k = "n"
            THEN [ok |-> TRUE, n |-> v.s[1].n, err |-> ""]
            ELSE [ok |-> FALSE, n |-> 0, err |-> "ValueError"]
      [] OTHER -> [ok |-> FALSE, n |-> 0, err |-> "TypeError"]

\* d.get(key, dflt) and `key in d` for a parsed object.
Has(obj, key) == key \in DOMAIN obj.f

Get(obj, key, dflt) == IF Has(obj, key) THEN obj.f[key] ELSE dflt

\* mutate, lines 157-166: a str value is parsed as JSON when it parses.
parsed_value(value) ==
    IF value.t = "str"
    THEN LET r == JsonLoads(value.s)
         IN  IF r.ok THEN r.v ELSE value
    ELSE value

-----------------------------------------------------------------------------
(* The store and the audit log.                                             *)

\* The characters str.isalnum accepts, among those campaign ids are made of.
Alnum == {"c", "z", "1", "2"}

\* _campaign_path: the file stem, campaign_id without its unsafe characters.
IsSafe(c) == c \in Alnum \/ c \in {"-", "_"}

campaign_path(campaign_id) == SelectSeq(campaign_id, IsSafe)

\* _load_campaign: <<>> where it raises FileNotFoundError, else <<document>>.
load_campaign(st, campaign_id) ==
    IF campaign_path(campaign_id) \in DOMAIN st
    THEN st[campaign_path(campaign_id)]
    ELSE None

\* _save_campaign: the file is replaced by the whole document.
save_campaign(st, campaign_id, data) ==
    [p \in DOMAIN st \cup {campaign_path(campaign_id)} |->
        IF p = campaign_path(campaign_id) THEN Some(data) ELSE st[p]]

\* _log_event: ts is set unless the event has one; one line is appended.
log_event(lg, event, now) ==
    Append(lg,
           IF "ts" \in DOMAIN event
           THEN event
           ELSE [k \in DOMAIN event \cup {"ts"} |->
                    IF k = "ts" THEN now ELSE event[k]])

\* a character that is not there is taken to be the first one
find_character_or_first(data, char_id) ==
    LET hits == {i \in 1..Len(data.characters) : data.characters[i].id = char_id}
    IN  IF hits = {} THEN 1
        ELSE CHOOSE i \in hits : \A j \in hits : i <= j

\* _find_character: the index of the first character with that id; 0 where it
\* raises KeyError.
find_character(data, char_id) ==
    LET hits == {i \in 1..Len(data.characters) : data.characters[i].id = char_id}
    IN  IF hits = {} THEN 0
        ELSE CHOOSE i \in hits : \A j \in hits : i <= j

-----------------------------------------------------------------------------
(* mutate: the operations.  Each gives [err, data]: err is "" and data the  *)
(* changed document, or err names the exception raised.                     *)

Raise(e) == [err |-> e, data |-> None]

Return(data) == [err |-> "", data |-> Some(data)]

\* `not text`
NoText(text) == text = None \/ text[1] = <<>>

\* gold floored at 0, as hp is
GoldAddFloored(current, delta) ==
    IF current + delta < 0 THEN 0 ELSE current + delta

\* lines 174-175 (gold), 192-193 (xp), 228-229 (day): current + delta
GoldAdd(current, delta) == current + delta

XpAdd(current, delta) == current + delta

DayAdd(current, delta) == current + delta

\* hp without its floor
HpAddUnclamped(current, delta) == current + delta

\* lines 182-186: the new hp, clamped at 0
HpAdd(current, delta) ==
    IF current + delta < 0 THEN 0 ELSE current + delta

\* the text is added where the notes end, a newline or not
NoteAppendJoined(notes, text) == OrText(notes) \o text

\* lines 201-204, 211-214, 219-222: the notes with text added on a new line
NoteAppend(notes, text) ==
    LET existing == OrText(notes)
    IN  IF existing # <<>> /\ existing[Len(existing)] # "\n"
        THEN existing \o <<"\n">> \o text
        ELSE existing \o text

gold_add(data, ci, amount) ==
    IF ci = 0 \/ amount = None THEN Raise("ValueError")
    ELSE Return([data EXCEPT !.characters[ci].gold =
                    Some(GoldAdd(OrInt(@, 0), amount[1]))])

hp_add(data, ci, amount) ==
    IF ci = 0 \/ amount = None THEN Raise("ValueError")
    ELSE Return([data EXCEPT !.characters[ci].hp =
                    Some(HpAdd(OrInt(@, 0), amount[1]))])

xp_add(data, ci, amount) ==
    IF ci = 0 \/ amount = None THEN Raise("ValueError")
    ELSE Return([data EXCEPT !.characters[ci].xp =
                    Some(XpAdd(OrInt(@, 0), amount[1]))])

note_append(data, ci, text) ==
    IF NoText(text) THEN Raise("ValueError")
    ELSE IF ci # 0
    THEN Return([data EXCEPT !.characters[ci].notes =
                    Some(NoteAppend(@, text[1]))])
    ELSE Return([data EXCEPT !.notes = Some(NoteAppend(@, text[1]))])

\* the text goes to the notes of the campaign, not of the character
char_note_add_to_campaign(data, ci, text) ==
    IF ci = 0 \/ NoText(text) THEN Raise("ValueError")
    ELSE Return([data EXCEPT !.notes = Some(NoteAppend(@, text[1]))])

char_note_add(data, ci, text) ==
    IF ci = 0 \/ NoText(text) THEN Raise("ValueError")
    ELSE Return([data EXCEPT !.characters[ci].notes =
                    Some(NoteAppend(@, text[1]))])

campaign_note_add(data, text) ==
    IF NoText(text) THEN Raise("ValueError")
    ELSE Return([data EXCEPT !.notes = Some(NoteAppend(@, text[1]))])

day_add(data, amount) ==
    IF amount = None THEN Raise("ValueError")
    ELSE Return([data EXCEPT !.day = Some(DayAdd(OrInt(@, 0), amount[1]))])

day_set(data, amount) ==
    IF amount = None THEN Raise("ValueError")
    ELSE Return([data EXCEPT !.day = amount])

\* the value is stored as given, not parsed
location_set(data, value) ==
    IF value = JNull THEN Raise("ValueError")
    ELSE Return([data EXCEPT !.location = value])

\* the index of the first record of seq with that id, 0 if there is none
IndexOfId(seq, id) ==
    LET hits == {i \in 1..Len(seq) : seq[i].id = id}
    IN  IF hits = {} THEN 0
        ELSE CHOOSE i \in hits : \A j \in hits : i <= j

\* an item already held gets the new qty instead of gaining it
InventoryAddReplaces(inventory, item_id, name, qty) ==
    LET i == IndexOfId(inventory, item_id)
    IN  IF i # 0
        THEN [inventory EXCEPT ![i].qty = qty]
        ELSE Append(inventory, [id |-> item_id, name |-> name, qty |-> qty])

\* every add appends a record, also for an item already held
InventoryAddAppends(inventory, item_id, name, qty) ==
    Append(inventory, [id |-> item_id, name |-> name, qty |-> qty])

\* lines 254-263: an item already held gains qty, a new one is appended
InventoryAdd(inventory, item_id, name, qty) ==
    LET i == IndexOfId(inventory, item_id)
    IN  IF i # 0
        THEN [inventory EXCEPT ![i].qty = @ + qty]
        ELSE Append(inventory, [id |-> item_id, name |-> name, qty |-> qty])

\* an item is kept at qty 0 (>= for >)
RECURSIVE InventoryRemoveKeepsZero(_, _, _)
InventoryRemoveKeepsZero(inventory, item_id, qty) ==
    IF inventory = <<>> THEN <<>>
    ELSE LET it == Head(inventory)
             rest == InventoryRemoveKeepsZero(Tail(inventory), item_id, qty)
         IN  IF it.id # item_id THEN <<it>> \o rest
             ELSE IF it.qty - qty >= 0
             THEN <<[it EXCEPT !.qty = it.qty - qty]>> \o rest
             ELSE rest

\* lines 276-287: every item with that id loses qty and is dropped at <= 0
RECURSIVE InventoryRemove(_, _, _)
InventoryRemove(inventory, item_id, qty) ==
    IF inventory = <<>> THEN <<>>
    ELSE LET it == Head(inventory)
             rest == InventoryRemove(Tail(inventory), item_id, qty)
         IN  IF it.id # item_id THEN <<it>> \o rest
             ELSE IF it.qty - qty > 0
             THEN <<[it EXCEPT !.qty = it.qty - qty]>> \o rest
             ELSE rest

inventory_add(data, ci, pv) ==
    IF ci = 0 THEN Raise("ValueError")
    ELSE IF pv.t # "obj" \/ ~Has(pv, "id") THEN Raise("ValueError")
    ELSE LET item_id == StrOf(pv.f["id"])
             name == StrOf(Get(pv, "name", pv.f["id"]))
             qty == IntOf(Get(pv, "qty", JInt(1)))
         IN  IF ~qty.ok THEN Raise(qty.err)
             ELSE IF qty.n <= 0 THEN Raise("ValueError")
             ELSE Return([data EXCEPT !.characters[ci].inventory =
                    Some(InventoryAdd(OrList(@), item_id, name, qty.n))])

inventory_remove(data, ci, pv) ==
    IF ci = 0 THEN Raise("ValueError")
    ELSE IF pv.t # "obj" \/ ~Has(pv, "id") THEN Raise("ValueError")
    ELSE LET item_id == StrOf(pv.f["id"])
             qty == IntOf(Get(pv, "qty", JInt(1)))
         IN  IF ~qty.ok THEN Raise(qty.err)
             ELSE IF qty.n <= 0 THEN Raise("ValueError")
             ELSE Return([data EXCEPT !.characters[ci].inventory =
                    Some(InventoryRemove(OrList(@), item_id, qty.n))])

\* lines 291-297: world_flags[key] = value
world_flag_set(data, pv) ==
    IF pv.t # "obj" \/ ~Has(pv, "key") THEN Raise("ValueError")
    ELSE LET key == StrOf(pv.f["key"])
             val == Get(pv, "value", JNull)
             flags == IF data.world_flags = None THEN EmptyObj
                      ELSE data.world_flags[1]
         IN  Return([data EXCEPT !.world_flags =
                Some([k \in DOMAIN flags \cup {key} |->
                        IF k = key THEN val ELSE flags[k]])])

\* a quest found takes every field the value names, null or not
QuestUpdateOverwrites(quests, qid, pv) ==
    LET i == IndexOfId(quests, qid)
    IN  IF i = 0
        THEN Append(quests,
                    [id |-> qid,
                     title |-> StrOf(Get(pv, "title", JStr(<<TW(qid)>>))),
                     status |-> StrOf(Get(pv, "status", JStr(<<TW("open")>>))),
                     notes |-> Get(pv, "notes", JNull)])
        ELSE [quests EXCEPT
                ![i].title = IF Has(pv, "title") THEN StrOf(pv.f["title"]) ELSE @,
                ![i].status = IF Has(pv, "status") THEN StrOf(pv.f["status"]) ELSE @,
                ![i].notes = IF Has(pv, "notes") THEN pv.f["notes"] ELSE @]

\* lines 309-323: a new quest, or the given fields of the quest found
QuestUpdate(quests, qid, pv) ==
    LET i == IndexOfId(quests, qid)
    IN  IF i = 0
        THEN Append(quests,
                    [id |-> qid,
                     title |-> StrOf(Get(pv, "title", JStr(<<TW(qid)>>))),
                     status |-> StrOf(Get(pv, "status", JStr(<<TW("open")>>))),
                     notes |-> Get(pv, "notes", JNull)])
        ELSE [quests EXCEPT
                ![i].title = IF Has(pv, "title") /\ pv.f["title"] # JNull
                             THEN StrOf(pv.f["title"]) ELSE @,
                ![i].status = IF Has(pv, "status") /\ pv.f["status"] # JNull
                              THEN StrOf(pv.f["status"]) ELSE @,
                ![i].notes = IF Has(pv, "notes") THEN pv.f["notes"] ELSE @]

quest_update(data, pv) ==
    IF pv.t # "obj" \/ ~Has(pv, "id") THEN Raise("ValueError")
    ELSE Return([data EXCEPT !.quests =
                    Some(QuestUpdate(OrList(@), StrOf(pv.f["id"]), pv))])

\* the rep of a faction found is set to delta
FactionRepAddSets(factions, fid, name, delta) ==
    LET i == IndexOfId(factions, fid)
    IN  IF i = 0
        THEN Append(factions, [id |-> fid, name |-> name, rep |-> delta])
        ELSE [factions EXCEPT ![i].name = name, ![i].rep = delta]

\* lines 332-343: a new faction, or the name and the added rep of the one found
FactionRepAdd(factions, fid, name, delta) ==
    LET i == IndexOfId(factions, fid)
    IN  IF i = 0
        THEN Append(factions, [id |-> fid, name |-> name, rep |-> delta])
        ELSE [factions EXCEPT ![i].name = name, ![i].rep = @ + delta]

faction_rep_add(data, pv) ==
    IF pv.t # "obj" \/ ~Has(pv, "id") THEN Raise("ValueError")
    ELSE LET fid == StrOf(pv.f["id"])
             delta == IntOf(Get(pv, "delta", JInt(0)))
             name == StrOf(Get(pv, "name", pv.f["id"]))
         IN  IF ~delta.ok THEN Raise(delta.err)
             ELSE Return([data EXCEPT !.factions =
                    Some(FactionRepAdd(OrList(@), fid, name, delta.n))])

\* The op names of the if/elif chain of lines 170-347.
Ops ==
    {"gold_add", "hp_add", "xp_add", "note_append", "char_note_add",
     "campaign_note_add", "day_add", "day_set", "location_set",
     "inventory_add", "inventory_remove", "world_flag_set", "quest_update",
     "faction_rep_add", "history_log"}

\* a call the op chain lets through would be saved and logged like any other
unknown_op_ignored(data, call) == Return(data)

\* lines 361-362: the else branch
unknown_op(data, call) == Raise("UnknownOp")

\* lines 147-362 on the loaded document: the character lookup, then the branch
\* of the op.
Dispatch(data, call) ==
    LET ci == IF call.char_id = None THEN 0
              ELSE find_character(data, call.char_id[1])
        pv == parsed_value(call.value)
        op == call.op
    IN  IF call.char_id # None /\ ci = 0 THEN Raise("KeyError")
        ELSE CASE op = "gold_add" -> gold_add(data, ci, call.amount)
               [] op = "hp_add" -> hp_add(data, ci, call.amount)
               [] op = "xp_add" -> xp_add(data, ci, call.amount)
               [] op = "note_append" -> note_append(data, ci, call.text)
               [] op = "char_note_add" -> char_note_add(data, ci, call.text)
               [] op = "campaign_note_add" -> campaign_note_add(data, call.text)
               [] op = "day_add" -> day_add(data, call.amount)
               [] op = "day_set" -> day_set(data, call.amount)
               [] op = "location_set" -> location_set(data, call.value)
               [] op = "inventory_add" -> inventory_add(data, ci, pv)
               [] op = "inventory_remove" -> inventory_remove(data, ci, pv)
               [] op = "world_flag_set" -> world_flag_set(data, pv)
               [] op = "quest_update" -> quest_update(data, pv)
               [] op = "faction_rep_add" -> faction_rep_add(data, pv)
               [] op = "history_log" -> Return(data)
               [] OTHER -> unknown_op(data, call)

\* lines 367-377: the event of a call that changed the document
MutateEvent(call) ==
    [type |-> "mutate", op |-> call.op, campaign_id |-> call.campaign_id,
     char_id |-> call.char_id, amount |-> call.amount, text |-> call.text,
     value |-> call.value]

\* history_log logged as the other ops are
HistoryEventAsMutate(call) == MutateEvent(call)

\* lines 349-358: the event of history_log
HistoryEvent(call) ==
    [type |-> "history", campaign_id |-> call.campaign_id,
     char_id |-> call.char_id, amount |-> call.amount, text |-> call.text,
     value |-> parsed_value(call.value)]

-----------------------------------------------------------------------------
(* The documents on disk at the start (they are made outside app.py), and   *)
(* the calls made.                                                          *)

MaxLog == 2     \* calls that log, per run of Spec and SpecSteps

MaxClock == 1   \* seconds that pass

MaxSeq == 4     \* calls per run of SpecStats and SpecInv

C1 == <<"c", "1">>

C1Slash == <<"c", "/", "1">>

C2 == <<"c", "2">>

ZZ == <<"z", "z">>

Torch == [id |-> "torch", name |-> "Torch", qty |-> 1]

Hero1 ==
    [id |-> "h1", gold |-> Some(0), hp |-> Some(10), xp |-> None,
     notes |-> None, inventory |-> None]

Hero2 ==
    [id |-> "h2", gold |-> Some(7), hp |-> Some(0), xp |-> Some(1),
     notes |-> Some(<<"x">>), inventory |-> Some(<<Torch>>)]

Doc1 ==
    [id |-> "c1", characters |-> <<Hero1, Hero2>>, day |-> Some(1),
     location |-> JNull, notes |-> None,
     quests |-> Some(<<[id |-> "q1", title |-> "Find", status |-> "open",
                        notes |-> JNull]>>),
     factions |-> None, world_flags |-> None]

Doc2 ==
    [id |-> "c2", characters |-> <<[Hero1 EXCEPT !.hp = Some(3)]>>,
     day |-> None, location |-> JStr(<<TW("tavern")>>),
     notes |-> Some(<<"n", "\n">>), quests |-> None,
     factions |-> Some(<<[id |-> "f1", name |-> "Guild", rep |-> 1]>>),
     world_flags |-> None]

InitStore ==
    [p \in {campaign_path(C1), campaign_path(C2)} |->
        IF p = campaign_path(C1) THEN Some(Doc1) ELSE Some(Doc2)]

Call(c, op, ch, am, tx, v) ==
    [campaign_id |-> c, op |-> op, char_id |-> ch, amount |-> am,
     text |-> tx, value |-> v]

Obj1(k1, v1) == JObj([k \in {k1} |-> v1])

Obj2(k1, v1, k2, v2) == JObj([k \in {k1, k2} |-> IF k = k1 THEN v1 ELSE v2])

Word(w) == JStr(<<TW(w)>>)

\* the str {"id":"torch","qty":2}
TorchJson ==
    JStr(<<TP("{"), TS(<<TW("id")>>), TP(":"), TS(<<TW("torch")>>), TP(","),
           TS(<<TW("qty")>>), TP(":"), TN(2), TP("}")>>)

CharArgs == {None, Some("h1"), Some("h2"), Some("ghost")}

AmountArgs == {None, Some(-15), Some(5)}

TextArgs == {None, Some(<<>>), Some(<<"a">>)}

InvValues ==
    {JNull, Word("torch"), Obj1("name", Word("Torch")),
     Obj1("id", Word("torch")), TorchJson,
     Obj2("id", Word("torch"), "qty", JInt(0)),
     Obj2("id", Word("torch"), "qty", JNull),
     Obj2("id", Word("torch"), "qty", Word("many"))}

StatCalls ==
    {Call(C1, op, ch, am, None, JNull) :
        op \in {"gold_add", "hp_add", "xp_add"}, ch \in CharArgs,
        am \in AmountArgs}

NoteCalls ==
    {Call(C1, op, ch, None, tx, JNull) :
        op \in {"note_append", "char_note_add", "campaign_note_add"},
        ch \in {None, Some("h2")}, tx \in TextArgs}
    \cup {Call(C1, op, Some("ghost"), None, Some(<<"a">>), JNull) :
        op \in {"note_append", "char_note_add", "campaign_note_add"}}

DayCalls ==
    {Call(C1, op, None, am, None, JNull) :
        op \in {"day_add", "day_set"}, am \in AmountArgs}
    \cup {Call(C1, op, Some("ghost"), Some(5), None, JNull) :
        op \in {"day_add", "day_set"}}

InvCalls ==
    {Call(C1, "inventory_add", ch, None, None, v) :
        ch \in {Some("h1"), Some("h2")}, v \in InvValues}
    \cup {Call(C1, "inventory_remove", ch, None, None, v) :
        ch \in {Some("h1"), Some("h2")},
        v \in {JNull, Obj1("id", Word("torch")), TorchJson,
               Obj2("id", Word("torch"), "qty", JInt(0))}}
    \cup {Call(C1, op, ch, None, None, TorchJson) :
        op \in {"inventory_add", "inventory_remove"},
        ch \in {None, Some("ghost")}}

ValueCalls ==
    {Call(C1, "location_set", None, None, None, v) :
        v \in {JNull, Word("tavern")}}
    \cup {Call(C1, "world_flag_set", None, None, None, v) :
        v \in {JNull, Obj1("value", JInt(1)),
               Obj2("key", Word("war"), "value", JInt(1))}}
    \cup {Call(C1, "quest_update", ch, None, None, v) :
        ch \in {None, Some("ghost")},
        v \in {Word("q1"), Obj2("id", Word("q1"), "status", Word("done")),
               Obj1("id", Word("q2"))}}
    \cup {Call(C1, "faction_rep_add", None, None, None, v) :
        v \in {Obj1("name", Word("Guild")),
               Obj2("id", Word("f1"), "delta", JInt(2)),
               Obj2("id", Word("f1"), "delta", JNull)}}

HistoryCalls ==
    {Call(C1, "history_log", ch, None, Some(<<"a">>), v) :
        ch \in {None, Some("h1"), Some("ghost")}, v \in {JNull, TorchJson}}

\* an op that mutate does not know
UnknownCalls ==
    {Call(c, "fly", ch, None, None, JNull) :
        c \in {C1, ZZ}, ch \in {None, Some("h1"), Some("ghost")}}
    \cup {Call(c, "fly", ch, Some(5), Some(<<"a">>), TorchJson) :
        c \in {C1, ZZ}, ch \in {None, Some("h1"), Some("ghost")}}

\* calls on the second document, on the first under another id, and on a
\* campaign that does not exist
OtherCalls ==
    {Call(c, "gold_add", Some("h1"), Some(5), None, JNull) :
        c \in {C2, C1Slash, ZZ}}
    \cup {Call(c, "hp_add", ch, Some(-15), None, JNull) :
        c \in {C2, C1Slash, ZZ}, ch \in {Some("h1"), Some("ghost")}}
    \cup {Call(c, "history_log", None, None, Some(<<"a">>), JNull) :
        c \in {C2, ZZ}}
    \cup {Call(C2, "fly", None, None, None, JNull),
          Call(C2, "day_set", None, None, None, JNull),
          Call(ZZ, "inventory_add", Some("h1"), None, None, JNull)}

Calls ==
    StatCalls \cup NoteCalls \cup DayCalls \cup InvCalls \cup ValueCalls
    \cup HistoryCalls \cup UnknownCalls \cup OtherCalls

-----------------------------------------------------------------------------
(* mutate as one step.                                                      *)

Workers == {"w1", "w2"}

NoCall == Call(<<>>, "", None, None, None, JNull)

\* a worker outside mutate holds nothing
NoLocal == [call |-> NoCall, r |-> [err |-> "none", data |-> None]]

\* lines 145-362: [err, data], the document as mutate holds it in memory
Outcome(st, call) ==
    LET loaded == load_campaign(st, call.campaign_id)
    IN  IF loaded = None THEN Raise("FileNotFoundError")
        ELSE Dispatch(loaded[1], call)

\* the save left out
StoreAfterSkipped(st, call, r) == st

\* line 365: the document is saved unless the call raised or only logs
StoreAfter(st, call, r) ==
    IF r.err = "" /\ call.op # "history_log"
    THEN save_campaign(st, call.campaign_id, r.data[1])
    ELSE st

\* the event logged before the call is known to go through
LogAfterAttempt(lg, call, r, now) ==
    IF call.op = "history_log" THEN log_event(lg, HistoryEvent(call), now)
    ELSE log_event(lg, MutateEvent(call), now)

\* lines 349-358, 367-377: one event is logged unless the call raised
LogAfter(lg, call, r, now) ==
    IF r.err # "" THEN lg
    ELSE IF call.op = "history_log" THEN log_event(lg, HistoryEvent(call), now)
    ELSE log_event(lg, MutateEvent(call), now)

Init ==
    /\ store = InitStore
    /\ log = <<>>
    /\ clock = 0
    /\ result = [err |-> "none", data |-> None]
    /\ pc = [w \in Workers |-> "idle"]
    /\ local = [w \in Workers |-> NoLocal]

\* mutate, from its call to its return or its exception
Mutate(call) ==
    /\ LET r == Outcome(store, call)
       IN  /\ store' = StoreAfter(store, call, r)
           /\ log' = LogAfter(log, call, r, clock)
           /\ result' = r
    /\ UNCHANGED <<clock, pc, local>>

\* a second passes
Tick ==
    /\ clock < MaxClock
    /\ clock' = clock + 1
    /\ UNCHANGED <<store, log, result, pc, local>>

Next == \E call \in Calls : Len(log) < MaxLog /\ Mutate(call)

Spec == Init /\ [][Next]_vars

\* the calls with an op mutate does not know, among calls that go through
RejectCalls == UnknownCalls \cup OtherCalls \cup HistoryCalls \cup DayCalls

NextReject == \E call \in RejectCalls : Len(log) < MaxLog /\ Mutate(call)

SpecReject == Init /\ [][NextReject]_vars

\* runs of the calls that change a character's gold, hp and xp
StatSeqCalls ==
    {Call(C1, op, Some("h1"), am, None, JNull) :
        op \in {"gold_add", "hp_add"}, am \in {Some(-15), Some(5), Some(3)}}
    \cup {Call(C1, "xp_add", Some("h1"), am, None, JNull) :
        am \in {None, Some(-15), Some(5)}}
    \cup {Call(C1, "hp_add", Some("h2"), am, None, JNull) :
        am \in {None, Some(-15), Some(5)}}

NextStats == \E call \in StatSeqCalls : Len(log) < MaxSeq /\ Mutate(call)

SpecStats == Init /\ [][NextStats]_vars

\* runs of the calls that change the torches a character holds
InvSeqCalls ==
    {Call(C1, op, ch, None, None, v) :
        op \in {"inventory_add", "inventory_remove"},
        ch \in {Some("h1"), Some("h2")},
        v \in {Obj1("id", Word("torch")), TorchJson}}
    \cup {Call(C1, "inventory_remove", Some("h2"), None, None,
               Obj2("id", Word("torch"), "qty", JInt(0)))}

NextInv == \E call \in InvSeqCalls : Len(log) < MaxSeq /\ Mutate(call)

SpecInv == Init /\ [][NextInv]_vars

-----------------------------------------------------------------------------
(* mutate step by step: a worker loads the document and works on its copy   *)
(* (lines 145-362), saves it (line 365), then logs and returns (lines       *)
(* 367-379).  history_log logs and returns without saving (lines 349-359).  *)

InFlight == {w \in Workers : pc[w] # "idle"}

Load(w, call) ==
    /\ pc[w] = "idle"
    /\ LET r == Outcome(store, call)
       IN  IF r.err # ""
           THEN /\ result' = r
                /\ UNCHANGED <<pc, local>>
           ELSE /\ local' = [local EXCEPT ![w] = [call |-> call, r |-> r]]
                /\ pc' = [pc EXCEPT ![w] =
                            IF call.op = "history_log" THEN "log" ELSE "save"]
                /\ UNCHANGED result
    /\ UNCHANGED <<store, log, clock>>

Save(w) ==
    /\ pc[w] = "save"
    /\ store' = StoreAfter(store, local[w].call, local[w].r)
    /\ pc' = [pc EXCEPT ![w] = "log"]
    /\ UNCHANGED <<log, clock, result, local>>

LogReturn(w) ==
    /\ pc[w] = "log"
    /\ log' = LogAfter(log, local[w].call, local[w].r, clock)
    /\ result' = local[w].r
    /\ pc' = [pc EXCEPT ![w] = "idle"]
    /\ local' = [local EXCEPT ![w] = NoLocal]
    /\ UNCHANGED <<store, clock>>

\* one worker: the calls follow each other
StepCalls ==
    {c \in Calls : c.campaign_id \in {C1, ZZ} /\ c.char_id # Some("h2")}

NextSteps ==
    \/ \E call \in StepCalls : Len(log) < MaxLog /\ Load("w1", call)
    \/ Save("w1")
    \/ LogReturn("w1")

SpecSteps == Init /\ [][NextSteps]_vars

\* two workers, as two server processes on one DATA_DIR: nothing in mutate
\* keeps their steps apart
ConcCalls ==
    {Call(C1, "gold_add", Some("h1"), am, None, JNull) : am \in {Some(5), Some(3)}}
    \cup {Call(C1, "hp_add", Some("h1"), Some(-15), None, JNull),
          Call(C2, "gold_add", Some("h1"), Some(5), None, JNull),
          Call(C1, "history_log", None, None, Some(<<"a">>), JNull),
          Call(C1, "fly", None, None, None, JNull),
          Call(C1, "gold_add", Some("ghost"), Some(5), None, JNull)}

NextConc ==
    \/ \E w \in Workers :
          \/ \E call \in ConcCalls :
                Len(log) + Cardinality(InFlight) < MaxLog /\ Load(w, call)
          \/ Save(w)
          \/ LogReturn(w)
    \/ Tick

SpecConc == Init /\ [][NextConc]_vars

-----------------------------------------------------------------------------
(* What the log says was done, and what the documents started from.         *)

IsMutateOf(e, op, path, ch) ==
    /\ e.type = "mutate"
    /\ e.op = op
    /\ campaign_path(e.campaign_id) = path
    /\ e.char_id = Some(ch)

\* the sum of the amounts of the logged calls of op on that character
RECURSIVE LoggedSum(_, _, _, _)
LoggedSum(lg, op, path, ch) ==
    IF lg = <<>> THEN 0
    ELSE LoggedSum(SubSeq(lg, 1, Len(lg) - 1), op, path, ch)
         + (IF IsMutateOf(lg[Len(lg)], op, path, ch)
            THEN lg[Len(lg)].amount[1] ELSE 0)

\* the characters on disk: <<file, index>>
Stored ==
    {pi \in (DOMAIN store) \X (1..2) :
        store[pi[1]] # None /\ pi[2] <= Len(store[pi[1]][1].characters)}

Char(pi) == store[pi[1]][1].characters[pi[2]]

InitChar(pi) == InitStore[pi[1]][1].characters[pi[2]]

CallerErrors == {"FileNotFoundError", "KeyError", "UnknownOp", "ValueError"}

-----------------------------------------------------------------------------
(* C1  No update is lost between concurrent calls on one campaign: once     *)
(* every call has returned, each character's gold is its first gold plus    *)
(* the amounts of all the gold_add calls the log holds for it (5 and 3 on   *)
(* gold 0 give 8).                                                          *)
C1_NoLostUpdate ==
    InFlight = {} =>
        \A pi \in Stored :
            OrInt(Char(pi).gold, 0) =
                OrInt(InitChar(pi).gold, 0)
                + LoggedSum(log, "gold_add", pi[1], Char(pi).id)

(* C2  A call that fails with NotFound, UnknownOperation or InvalidArgument *)
(* leaves every stored document and the audit log as they were.             *)
C2_RejectedCallChangesNothing ==
    [][result'.err \in CallerErrors => store' = store /\ log' = log]_vars

C2_Witness == result.err = "ValueError" /\ Len(log) = 1

UnregisteredCalls == {c \in RejectCalls : c.op \notin Ops}

(* C3, as claimed: a call with an op that is not registered fails with      *)
(* UnknownOperation whatever its other arguments are, and changes neither   *)
(* the documents nor the log.                                               *)
C3_AlwaysUnknownOperation ==
    [][\A call \in UnregisteredCalls :
          Mutate(call) =>
              result'.err = "UnknownOp" /\ store' = store /\ log' = log]_vars

(* C3, amended: a call with an op that is not registered fails and changes  *)
(* neither the documents nor the log; it fails with NotFound when the       *)
(* campaign, or the character given, is not found, and with                 *)
(* UnknownOperation otherwise.                                              *)
C3_UnknownOpRejected ==
    [][\A call \in UnregisteredCalls :
          Mutate(call) =>
              /\ store' = store
              /\ log' = log
              /\ LET loaded == load_campaign(store, call.campaign_id)
                 IN  result'.err =
                        IF loaded = None THEN "FileNotFoundError"
                        ELSE IF /\ call.char_id # None
                                /\ \A i \in 1..Len(loaded[1].characters) :
                                      loaded[1].characters[i].id # call.char_id[1]
                        THEN "KeyError"
                        ELSE "UnknownOp"]_vars

C3_Witness == result.err = "UnknownOp" /\ Len(log) = 1

Max0(n) == IF n < 0 THEN 0 ELSE n

\* hp as the logged hp_add calls make it, one after the other, from hp0
RECURSIVE LoggedHp(_, _, _, _)
LoggedHp(lg, path, ch, hp0) ==
    IF lg = <<>> THEN hp0
    ELSE LET before == LoggedHp(SubSeq(lg, 1, Len(lg) - 1), path, ch, hp0)
             e == lg[Len(lg)]
         IN  IF IsMutateOf(e, "hp_add", path, ch)
             THEN Max0(before + e.amount[1])
             ELSE before

(* C4, as claimed: after any run of hp_add calls a character's hp is        *)
(* max(0, first hp + the sum of all the deltas).                            *)
C4_HpIsClampedSum ==
    \A pi \in Stored :
        OrInt(Char(pi).hp, 0) =
            Max0(OrInt(InitChar(pi).hp, 0)
                 + LoggedSum(log, "hp_add", pi[1], Char(pi).id))

(* C4, amended: after any run of hp_add calls a character's hp is what      *)
(* hp := max(0, hp + delta) gives when applied for each delta in call       *)
(* order, which is never less than max(0, first hp + the sum of the deltas).*)
C4_HpIsClampedStepwise ==
    \A pi \in Stored :
        /\ OrInt(Char(pi).hp, 0) =
              LoggedHp(log, pi[1], Char(pi).id, OrInt(InitChar(pi).hp, 0))
        /\ OrInt(Char(pi).hp, 0) >=
              Max0(OrInt(InitChar(pi).hp, 0)
                   + LoggedSum(log, "hp_add", pi[1], Char(pi).id))

\* a run whose hp was floored on the way and rose again
C4_Witness ==
    \E pi \in Stored :
        OrInt(Char(pi).hp, 0) >
            Max0(OrInt(InitChar(pi).hp, 0)
                 + LoggedSum(log, "hp_add", pi[1], Char(pi).id))

(* C6  After any run of gold_add (xp_add) calls a character's gold (xp) is  *)
(* its first value plus the sum of the amounts, below 0 when the sum is.    *)
C6_GoldAndXpAreSums ==
    \A pi \in Stored :
        /\ OrInt(Char(pi).gold, 0) =
              OrInt(InitChar(pi).gold, 0)
              + LoggedSum(log, "gold_add", pi[1], Char(pi).id)
        /\ OrInt(Char(pi).xp, 0) =
              OrInt(InitChar(pi).xp, 0)
              + LoggedSum(log, "xp_add", pi[1], Char(pi).id)

\* -15 then 5 on gold 0, and -15 on no xp
C6_Witness ==
    \E pi \in Stored :
        /\ Char(pi).gold = Some(-10)
        /\ Char(pi).xp = Some(-15)
        /\ Len(log) = 3

\* the qty of the item with that id, 0 when the inventory holds none
QtyOf(inventory, item_id) ==
    LET i == IndexOfId(OrList(inventory), item_id)
    IN  IF i = 0 THEN 0 ELSE OrList(inventory)[i].qty

\* the qty a logged inventory call names
LoggedQty(e) == IntOf(Get(parsed_value(e.value), "qty", JInt(1))).n

IsInventoryCall(e, op, path, ch, item_id) ==
    /\ IsMutateOf(e, op, path, ch)
    /\ StrOf(parsed_value(e.value).f["id"]) = item_id

\* added qty minus removed qty, over the logged calls on that item
RECURSIVE LoggedNet(_, _, _, _)
LoggedNet(lg, path, ch, item_id) ==
    IF lg = <<>> THEN 0
    ELSE LET e == lg[Len(lg)]
         IN  LoggedNet(SubSeq(lg, 1, Len(lg) - 1), path, ch, item_id)
             + (IF IsInventoryCall(e, "inventory_add", path, ch, item_id)
                THEN LoggedQty(e)
                ELSE IF IsInventoryCall(e, "inventory_remove", path, ch, item_id)
                THEN 0 - LoggedQty(e)
                ELSE 0)

\* the qty as the logged calls make it, one after the other, from qty0
RECURSIVE LoggedStock(_, _, _, _, _)
LoggedStock(lg, path, ch, item_id, qty0) ==
    IF lg = <<>> THEN qty0
    ELSE LET before == LoggedStock(SubSeq(lg, 1, Len(lg) - 1), path, ch,
                                   item_id, qty0)
             e == lg[Len(lg)]
         IN  IF IsInventoryCall(e, "inventory_add", path, ch, item_id)
             THEN before + LoggedQty(e)
             ELSE IF IsInventoryCall(e, "inventory_remove", path, ch, item_id)
             THEN Max0(before - LoggedQty(e))
             ELSE before

\* the item is held with qty n, or is not held and n is 0
HoldsExactly(inventory, item_id, n) ==
    /\ QtyOf(inventory, item_id) = n
    /\ (IndexOfId(OrList(inventory), item_id) = 0) <=> (n = 0)

(* C5, as claimed: after any run of inventory_add and inventory_remove      *)
(* calls on one item of one character, its qty is max(0, first qty + added  *)
(* - removed), and the item is absent exactly when that is 0.               *)
C5_QtyIsClampedSum ==
    \A pi \in Stored :
        HoldsExactly(Char(pi).inventory, "torch",
            Max0(QtyOf(InitChar(pi).inventory, "torch")
                 + LoggedNet(log, pi[1], Char(pi).id, "torch")))

(* C5, amended: after any run of inventory_add and inventory_remove calls   *)
(* on one item of one character, its qty is what qty := qty + added and     *)
(* qty := max(0, qty - removed) give when applied call by call, and the     *)
(* item is absent exactly when that is 0.                                   *)
C5_QtyIsClampedStepwise ==
    \A pi \in Stored :
        HoldsExactly(Char(pi).inventory, "torch",
            LoggedStock(log, pi[1], Char(pi).id, "torch",
                        QtyOf(InitChar(pi).inventory, "torch")))

\* more was removed than was held, and the item was added again
C5_Witness ==
    \E pi \in Stored :
        QtyOf(Char(pi).inventory, "torch") >
            Max0(QtyOf(InitChar(pi).inventory, "torch")
                 + LoggedNet(log, pi[1], Char(pi).id, "torch"))

\* the one worker of SpecSteps, its call and the file the call names
W1Call == local["w1"].call

W1Path == campaign_path(W1Call.campaign_id)

(* C7  A history_log call that succeeds never writes a document: every      *)
(* stored document is the same before and after each of its steps, the      *)
(* call returns the document as loaded, and the log gains exactly one       *)
(* entry, of type history and not of type mutate.                           *)
C7_HistoryLogOnlyLogs ==
    [][/\ local'["w1"].call.op = "history_log" /\ pc["w1"] = "idle" =>
            /\ pc'["w1"] = "log"
            /\ store' = store /\ log' = log
            /\ local'["w1"].r =
                  [err |-> "",
                   data |-> load_campaign(store, local'["w1"].call.campaign_id)]
       /\ W1Call.op = "history_log" /\ pc["w1"] # "idle" =>
            /\ pc["w1"] = "log" /\ pc'["w1"] = "idle"
            /\ store' = store
            /\ Len(log') = Len(log) + 1
            /\ SubSeq(log', 1, Len(log)) = log
            /\ log'[Len(log')].type = "history"
            /\ log'[Len(log')].campaign_id = W1Call.campaign_id
            /\ result' = [err |-> "", data |-> store[W1Path]]]_vars

\* a document was changed, and history_log then returned it as stored
C7_Witness ==
    /\ pc["w1"] = "idle"
    /\ Len(log) = 2
    /\ log[1].type = "mutate" /\ log[2].type = "history"
    /\ campaign_path(log[2].campaign_id) \in DOMAIN store
    /\ result = [err |-> "", data |-> store[campaign_path(log[2].campaign_id)]]
    /\ store # InitStore

(* C8  A call of another op than history_log that succeeds first saves the  *)
(* new document and then appends exactly one entry of type mutate with the  *)
(* call's op, campaign_id, char_id and amount; the stored document is the   *)
(* returned one, and no mutate entry is appended for a document that was    *)
(* not saved (hp_add of -15 on hp 10 stores hp 0 and logs op hp_add,        *)
(* amount -15).                                                             *)
C8_SavedThenLogged ==
    [][/\ pc["w1"] = "idle" /\ pc'["w1"] # "idle"
          /\ local'["w1"].call.op # "history_log" =>
            pc'["w1"] = "save" /\ log' = log
       /\ pc["w1"] = "save" =>
            /\ pc'["w1"] = "log"
            /\ log' = log
            /\ store'[W1Path] = local["w1"].r.data
       /\ pc["w1"] = "log" /\ W1Call.op # "history_log" =>
            /\ store' = store
            /\ store[W1Path] = local["w1"].r.data
            /\ result' = [err |-> "", data |-> store[W1Path]]
            /\ Len(log') = Len(log) + 1
            /\ SubSeq(log', 1, Len(log)) = log
            /\ LET e == log'[Len(log')]
               IN  /\ e.type = "mutate"
                   /\ e.op = W1Call.op
                   /\ e.campaign_id = W1Call.campaign_id
                   /\ e.char_id = W1Call.char_id
                   /\ e.amount = W1Call.amount
       /\ Len(log') > Len(log) /\ log'[Len(log')].type = "mutate" =>
            /\ pc["w1"] = "log"
            /\ store[campaign_path(log'[Len(log')].campaign_id)] = result'.data
      ]_vars

\* hp_add of -15 on hp 10
C8_Witness ==
    /\ pc["w1"] = "idle"
    /\ Len(log) = 1
    /\ log[1].type = "mutate" /\ log[1].op = "hp_add"
    /\ log[1].amount = Some(-15) /\ log[1].char_id = Some("h1")
    /\ store[campaign_path(C1)][1].characters[1].hp = Some(0)
    /\ result = [err |-> "", data |-> store[campaign_path(C1)]]

(* C9  From documents whose characters all have hp >= 0, every stored       *)
(* character has hp >= 0 after any calls.                                   *)
C9_HpNeverNegative ==
    \A pi \in Stored : Char(pi).hp = None \/ Char(pi).hp[1] >= 0

\* an hp_add took a character from hp above 0 down to the floor
C9_Witness ==
    \E pi \in Stored :
        /\ Char(pi).hp = Some(0)
        /\ InitChar(pi).hp[1] > 0
        /\ LoggedSum(log, "hp_add", pi[1], Char(pi).id) < 0 - InitChar(pi).hp[1]

Items(pi) == OrList(Char(pi).inventory)

\* the entry is an inventory_remove that takes no less than is held
TakesAll(e, pi) ==
    /\ IsInventoryCall(e, "inventory_remove", pi[1], Char(pi).id, "torch")
    /\ QtyOf(Char(pi).inventory, "torch") - LoggedQty(e) <= 0

(* C10  From documents whose items all have qty > 0, every item in a        *)
(* stored inventory has qty > 0 after any calls; an item whose qty would    *)
(* drop to 0 or below is removed, not kept.                                 *)
C10_QtyAlwaysPositive ==
    /\ [](\A pi \in Stored : \A i \in 1..Len(Items(pi)) : Items(pi)[i].qty > 0)
    /\ [][\A pi \in Stored :
            Len(log') > Len(log) /\ TakesAll(log'[Len(log')], pi) =>
                \A i \in 1..Len(Items(pi)') : Items(pi)'[i].id # "torch"]_vars

\* the one torch of h2 was removed
C10_Witness ==
    \E pi \in Stored :
        /\ InitChar(pi).inventory = Some(<<Torch>>)
        /\ Char(pi).inventory = Some(<<>>)

-----------------------------------------------------------------------------
(* The audit log beside mutate: dev_todo and dev_request_restart append to  *)
(* it, api_todo_status reads every line and writes the file again,          *)
(* dev_get_logs and api_logs read it.  The file is there once a line was    *)
(* appended: log = <<>> is the file missing.  Every line was written by     *)
(* _log_event, so json.loads gives back the event that json.dumps wrote.    *)

\* lines 398-409: the event of dev_todo
todo_event(summary) ==
    [type |-> "todo", summary |-> summary, details |-> None, tags |-> <<>>,
     campaign_id |-> None, char_id |-> None, done |-> FALSE, comment |-> <<>>]

\* lines 467-470: the event of dev_request_restart
restart_event(target) == [type |-> "dev_restart_request", target |-> target]

\* line 464
AllowedTargets == {"stack", "gameserver", "mcp"}

\* lines 56-60: the event with the time of the call, unless it has a ts
with_ts(event, now) ==
    IF "ts" \in DOMAIN event THEN event
    ELSE [k \in DOMAIN event \cup {"ts"} |->
            IF k = "ts" THEN now ELSE event[k]]

\* str.lower(), on the status words used
Lower(s) ==
    CASE s = "DONE" -> "done"
      [] s = "Open" -> "open"
      [] OTHER -> s

\* line 550: str(payload.get("status") or "open").lower()
StatusOf(status) ==
    IF status = None \/ status[1] = "" THEN "open" ELSE Lower(status[1])

\* every entry is amended, whatever its type and ts
amend_entry_any(e, todo_ts, status, comment) ==
    [k \in DOMAIN e \cup {"done", "comment"} |->
        CASE k = "done" -> StatusOf(status) = "done"
          [] k = "comment" -> OrText(comment)
          [] OTHER -> e[k]]

\* lines 572-574: done and comment of a todo entry with that ts
amend_entry(e, todo_ts, status, comment) ==
    IF e.type = "todo" /\ e.ts = todo_ts
    THEN [k \in DOMAIN e \cup {"done", "comment"} |->
            CASE k = "done" -> StatusOf(status) = "done"
              [] k = "comment" -> OrText(comment)
              [] OTHER -> e[k]]
    ELSE e

\* lines 571-574 over the entries read
todo_amend(entries, todo_ts, status, comment) ==
    [i \in 1..Len(entries) |-> amend_entry(entries[i], todo_ts, status, comment)]

\* what a handler that returns a JSON object gives back
Ok(obj) == [err |-> "", data |-> Some(obj)]

\* dev_todo and dev_request_restart up to the ts of _log_event (lines 56-60):
\* the event is made and stamped
Stamp(w, event) ==
    /\ pc[w] = "idle"
    /\ local' = [local EXCEPT ![w] = [event |-> with_ts(event, clock)]]
    /\ pc' = [pc EXCEPT ![w] = "append"]
    /\ UNCHANGED <<store, log, clock, result>>

\* lines 382-410
DevTodo(w, summary) == Stamp(w, todo_event(summary))

\* lines 454-472
DevRequestRestart(w, target) ==
    IF target \in AllowedTargets
    THEN Stamp(w, restart_event(target))
    ELSE /\ pc[w] = "idle"
         /\ result' = Raise("ValueError")
         /\ UNCHANGED <<store, log, clock, pc, local>>

\* lines 61-63 and the return of the tool: the line is appended
AppendLine(w) ==
    /\ pc[w] = "append"
    /\ log' = Append(log, local[w].event)
    /\ result' = Ok([ok |-> TRUE])
    /\ pc' = [pc EXCEPT ![w] = "idle"]
    /\ local' = [local EXCEPT ![w] = NoLocal]
    /\ UNCHANGED <<store, clock>>

\* lines 549-569: the checks, then every line is read
ApiTodoStatus(w, todo_ts, status, comment) ==
    /\ pc[w] = "idle"
    /\ IF todo_ts = None
       THEN /\ result' = Raise("ValueError")
            /\ UNCHANGED <<pc, local>>
       ELSE IF log = <<>>
       THEN /\ result' = Ok([ok |-> FALSE])
            /\ UNCHANGED <<pc, local>>
       ELSE /\ local' = [local EXCEPT ![w] =
                    [todo_ts |-> todo_ts[1], status |-> status,
                     comment |-> comment, entries |-> log]]
            /\ pc' = [pc EXCEPT ![w] = "rewrite"]
            /\ UNCHANGED result
    /\ UNCHANGED <<store, log, clock>>

\* lines 571-580: the entries read are amended and written over the file
Rewrite(w) ==
    /\ pc[w] = "rewrite"
    /\ log' = todo_amend(local[w].entries, local[w].todo_ts, local[w].status,
                         local[w].comment)
    /\ result' = Ok([ok |-> TRUE])
    /\ pc' = [pc EXCEPT ![w] = "idle"]
    /\ local' = [local EXCEPT ![w] = NoLocal]
    /\ UNCHANGED <<store, clock>>

\* e.get("ts", "")
TsOf(e) == e.ts

\* list.sort(key=ts), which keeps entries of one ts in their order: the place
\* of e in a sorted list is behind every entry that is not later
RECURSIVE InsertByTs(_, _)
InsertByTs(sorted, e) ==
    IF sorted = <<>> THEN <<e>>
    ELSE IF TsOf(sorted[Len(sorted)]) <= TsOf(e) THEN Append(sorted, e)
    ELSE Append(InsertByTs(SubSeq(sorted, 1, Len(sorted) - 1), e),
                sorted[Len(sorted)])

RECURSIVE SortByTs(_)
SortByTs(entries) ==
    IF entries = <<>> THEN <<>>
    ELSE InsertByTs(SortByTs(SubSeq(entries, 1, Len(entries) - 1)),
                    entries[Len(entries)])

\* entries[-limit:] when limit > 0
LastN(entries, limit) ==
    IF limit > 0 /\ limit < Len(entries)
    THEN SubSeq(entries, Len(entries) - limit + 1, Len(entries))
    ELSE entries

\* list.reverse()
Reverse(entries) ==
    [i \in 1..Len(entries) |-> entries[Len(entries) + 1 - i]]

\* line 435: the entries kept under event_type
Matches(e, event_type) ==
    event_type = None \/ event_type[1] = "" \/ e.type = event_type[1]

\* the entries are returned as sorted, the oldest first
dev_get_logs_oldest_first(lg, limit, event_type) ==
    LastN(SortByTs(SelectSeq(lg, LAMBDA e : Matches(e, event_type))), limit)

\* lines 423-442
dev_get_logs(lg, limit, event_type) ==
    Reverse(LastN(SortByTs(SelectSeq(lg, LAMBDA e : Matches(e, event_type))),
                  limit))

\* lines 590-606
api_logs(lg, limit) == Reverse(LastN(SortByTs(lg), limit))

DevGetLogs(limit, event_type) ==
    /\ result' = Ok([entries |-> dev_get_logs(log, limit, event_type)])
    /\ UNCHANGED <<store, log, clock, pc, local>>

ApiLogs(limit) ==
    /\ result' = Ok([entries |-> api_logs(log, limit)])
    /\ UNCHANGED <<store, log, clock, pc, local>>

\* the calls of mutate made beside the log tools
LogCalls ==
    {Call(C1, "gold_add", Some("h1"), Some(5), None, JNull),
     Call(C1, "history_log", None, None, Some(<<"a">>), JNull),
     Call(C1, "fly", None, None, None, JNull)}

Summaries == {"fix"}

Targets == {"mcp", "all"}

TodoTsArgs == {None} \cup {Some(t) : t \in 0..MaxClock}

\* status and comment of an amendment
StatusArgs == {<<None, None>>, <<Some("DONE"), Some(<<"k">>)>>}

LimitArgs == {-1, 0, 1, 2}

TypeArgs == {None, Some(""), Some("todo")}

\* the lines being appended
Appending == {w \in Workers : pc[w] \in {"save", "log", "append"}}

\* one caller after another
NextLog ==
    \/ /\ pc["w1"] = "idle"
       /\ Len(log) < MaxSeq - 1
       /\ \/ \E call \in LogCalls : Mutate(call)
          \/ \E summary \in Summaries : DevTodo("w1", summary)
          \/ \E target \in Targets : DevRequestRestart("w1", target)
    \/ AppendLine("w1")
    \/ \E todo_ts \in TodoTsArgs, sc \in StatusArgs :
          ApiTodoStatus("w1", todo_ts, sc[1], sc[2])
    \/ Rewrite("w1")
    \/ pc["w1"] = "idle" /\ Tick

SpecLog == Init /\ [][NextLog]_vars

\* two callers at once: nothing in app.py keeps a reader or writer of the
\* log file from running between the steps of another.  The calls of mutate
\* are those that leave the documents alone.
NextAmend ==
    \/ \E w \in Workers :
          \/ /\ Len(log) + Cardinality(Appending) < MaxLog
             /\ \/ \E call \in LogCalls : call.op \in {"history_log", "fly"} /\ Load(w, call)
                \/ \E summary \in Summaries : DevTodo(w, summary)
                \/ \E target \in Targets : DevRequestRestart(w, target)
          \/ LogReturn(w)
          \/ AppendLine(w)
          \/ \E todo_ts \in TodoTsArgs, sc \in StatusArgs :
                ApiTodoStatus(w, todo_ts, sc[1], sc[2])
          \/ Rewrite(w)
    \/ Tick

SpecAmend == Init /\ [][NextAmend]_vars

\* the log is read while one caller files todos and another asks for restarts
NextTail ==
    \/ \E w \in Workers :
          \/ /\ Len(log) + Cardinality(Appending) < MaxSeq - 1
             /\ \/ w = "w1" /\ \E summary \in Summaries : DevTodo(w, summary)
                \/ w = "w2" /\ \E target \in Targets : DevRequestRestart(w, target)
          \/ AppendLine(w)
    \/ \E limit \in LimitArgs, event_type \in TypeArgs :
          DevGetLogs(limit, event_type)
    \/ \E limit \in LimitArgs : ApiLogs(limit)
    \/ Tick

SpecTail == Init /\ [][NextTail]_vars

-----------------------------------------------------------------------------
(* _save_campaign step by step: open(path, "w") empties the file, json.dump *)
(* and the close fill it.  A file read in between holds nothing or the      *)
(* start of the new document; json.load raises JSONDecodeError on either.   *)

\* the content of a file that is open for writing
Truncated == [truncated |-> TRUE]

\* _load_campaign as a reader has it: the document, or the exception
read_campaign(st, campaign_id) ==
    LET file == load_campaign(st, campaign_id)
    IN  IF file = None THEN Raise("FileNotFoundError")
        ELSE IF "truncated" \in DOMAIN file[1] THEN Raise("JSONDecodeError")
        ELSE Return(file[1])

\* line 51: the file is opened for writing
SaveOpen(w) ==
    /\ pc[w] = "save"
    /\ store' = [p \in DOMAIN store \cup {campaign_path(local[w].call.campaign_id)} |->
                    IF p = campaign_path(local[w].call.campaign_id)
                    THEN Some(Truncated) ELSE store[p]]
    /\ pc' = [pc EXCEPT ![w] = "dump"]
    /\ UNCHANGED <<log, clock, result, local>>

\* line 52: the document is written and the file closed
SaveDump(w) ==
    /\ pc[w] = "dump"
    /\ store' = StoreAfter(store, local[w].call, local[w].r)
    /\ pc' = [pc EXCEPT ![w] = "log"]
    /\ UNCHANGED <<log, clock, result, local>>

\* get_campaign and api_campaign: lines 94-96, 583-585
GetCampaign(campaign_id) ==
    /\ result' = read_campaign(store, campaign_id)
    /\ UNCHANGED <<store, log, clock, pc, local>>

SaveCalls ==
    {Call(C1, "gold_add", Some("h1"), Some(5), None, JNull),
     Call(C1, "hp_add", Some("h1"), Some(-15), None, JNull),
     Call(C2, "gold_add", Some("h1"), Some(5), None, JNull),
     Call(C1, "history_log", None, None, Some(<<"a">>), JNull),
     Call(C1, "gold_add", Some("ghost"), Some(5), None, JNull)}

\* the ids the readers ask for
CampaignIds == {C1, C1Slash, C2, ZZ}

\* one caller of mutate, and readers at any time
NextSave ==
    \/ \E call \in SaveCalls : Len(log) < MaxLog /\ Load("w1", call)
    \/ SaveOpen("w1")
    \/ SaveDump("w1")
    \/ LogReturn("w1")
    \/ \E campaign_id \in CampaignIds : GetCampaign(campaign_id)

SpecSave == Init /\ [][NextSave]_vars

-----------------------------------------------------------------------------
(* Runs of the calls that add to notes: to the notes of a hero that end     *)
(* without a newline (h2 of c1), to notes that end with one (c2), and to    *)
(* notes that are not there (h1 and c1).                                    *)

NoteTexts == {<<"a">>, <<"b">>, <<"a", "\n">>, <<"a", "\n", "b">>}

NoteSeqCalls ==
    {Call(C1, op, Some("h2"), None, Some(tx), JNull) :
        op \in {"note_append", "char_note_add"}, tx \in NoteTexts}
    \cup {Call(c, op, None, None, Some(tx), JNull) :
        c \in {C1, C2}, op \in {"note_append", "campaign_note_add"},
        tx \in NoteTexts}
    \cup {Call(C1, "char_note_add", Some("h1"), None, tx, JNull) :
        tx \in {None, Some(<<"a">>)}}

NextNotes == \E call \in NoteSeqCalls : Len(log) < MaxLog /\ Mutate(call)

SpecNotes == Init /\ [][NextNotes]_vars

-----------------------------------------------------------------------------
(* Runs of quest_update and of faction_rep_add, on a document that has the  *)
(* quest or the faction and on one that has not.                            *)

QuestValues ==
    {Word("q1"),
     Obj2("id", Word("q1"), "status", Word("done")),
     Obj2("id", Word("q1"), "title", JNull),
     Obj2("id", Word("q1"), "notes", Word("seen")),
     Obj2("id", Word("q1"), "notes", JNull),
     Obj1("id", Word("q2")),
     Obj2("id", Word("q2"), "title", Word("Hunt"))}

QuestSeqCalls ==
    {Call(c, "quest_update", None, None, None, v) :
        c \in {C1, C2}, v \in QuestValues}

NextQuests == \E call \in QuestSeqCalls : Len(log) < MaxSeq - 1 /\ Mutate(call)

SpecQuests == Init /\ [][NextQuests]_vars

\* the str {"id":"f1","name":"Thieves","delta":-3}
ThievesJson ==
    JStr(<<TP("{"), TS(<<TW("id")>>), TP(":"), TS(<<TW("f1")>>), TP(","),
           TS(<<TW("name")>>), TP(":"), TS(<<TW("Thieves")>>), TP(","),
           TS(<<TW("delta")>>), TP(":"), TN(-3), TP("}")>>)

FactionValues ==
    {Obj2("id", Word("f1"), "delta", JInt(2)),
     Obj2("id", Word("f1"), "name", Word("Guild")),
     Obj2("id", Word("f1"), "name", JNull),
     Obj2("id", Word("f1"), "delta", JNull),
     ThievesJson}

FactionSeqCalls ==
    {Call(c, "faction_rep_add", None, None, None, v) :
        c \in {C1, C2}, v \in FactionValues}

NextFactions == \E call \in FactionSeqCalls : Len(log) < MaxSeq /\ Mutate(call)

SpecFactions == Init /\ [][NextFactions]_vars

-----------------------------------------------------------------------------
(* Calls with more than one defect: of every op, and of one that mutate     *)
(* does not know, on a campaign that is not there, for a character that is  *)
(* not there, and without the fields the op needs.                          *)

\* calls that go through when no char_id is given
GoodCalls ==
    {Call(C1, "day_add", None, Some(5), None, JNull),
     Call(C1, "day_set", None, Some(5), None, JNull),
     Call(C1, "location_set", None, None, None, Word("tavern")),
     Call(C1, "campaign_note_add", None, None, Some(<<"a">>), JNull),
     Call(C1, "world_flag_set", None, None, None,
          Obj2("key", Word("war"), "value", JInt(1))),
     Call(C1, "quest_update", None, None, None, Obj1("id", Word("q2"))),
     Call(C1, "faction_rep_add", None, None, None,
          Obj2("id", Word("f1"), "delta", JInt(2))),
     Call(C1, "history_log", None, None, Some(<<"a">>), JNull)}

OrderCalls ==
    {Call(c, op, ch, None, None, JNull) :
        c \in {C1, ZZ}, op \in Ops \cup {"fly"}, ch \in {None, Some("ghost")}}
    \cup {[call EXCEPT !.char_id = ch, !.campaign_id = c] :
            call \in GoodCalls, ch \in {None, Some("ghost")}, c \in {C1, ZZ}}

NextOrder == \E call \in OrderCalls : Len(log) < MaxLog /\ Mutate(call)

SpecOrder == Init /\ [][NextOrder]_vars

-----------------------------------------------------------------------------
(* What holds of the records of a document that carry an id.                *)

\* the documents on disk
Docs == {p \in DOMAIN store : store[p] # None}

UniqueIds(seq) ==
    \A i, j \in 1..Len(seq) : seq[i].id = seq[j].id => i = j

(* C11  Ids stay unique: after any run of calls no inventory holds two      *)
(* items with one id, no document two quests with one id or two factions    *)
(* with one id; a call with an id already there changes the record found.   *)
C11_IdsStayUnique ==
    \A p \in Docs :
        /\ \A i \in 1..Len(store[p][1].characters) :
              UniqueIds(OrList(store[p][1].characters[i].inventory))
        /\ UniqueIds(OrList(store[p][1].quests))
        /\ UniqueIds(OrList(store[p][1].factions))

\* the torch was added to the hero who held one, and a quest that was there
\* was updated
C11_Witness ==
    /\ Len(log) = 2
    /\ log[1].type = "mutate" /\ log[1].op = "inventory_add"
    /\ log[1].char_id = Some("h2")
    /\ log[2].type = "mutate" /\ log[2].op = "quest_update"
    /\ store[campaign_path(C1)][1].characters[2].inventory
            = Some(<<[Torch EXCEPT !.qty = 3]>>)
    /\ Len(store[campaign_path(C1)][1].quests[1]) = 1
    /\ store[campaign_path(C1)][1].quests[1][1].status = "done"

-----------------------------------------------------------------------------
(* What holds of the audit log.                                             *)

\* the fields of an entry that an amendment may change
Amendable == {"done", "comment"}

\* e2 is e1 but for done and comment
SameButStatus(e1, e2) ==
    /\ DOMAIN e2 \ Amendable = DOMAIN e1 \ Amendable
    /\ \A k \in DOMAIN e1 \ Amendable : e2[k] = e1[k]

(* C12  The todo amendment keeps the log but for the todo entries of its    *)
(* ts: when api_todo_status has written the file, the log is as long as it  *)
(* was, every entry that is not a todo of that ts is the same at the same   *)
(* place, and a todo of that ts differs in done and comment at most.        *)
C12_AmendKeepsOtherRecords ==
    [][pc["w1"] = "rewrite" /\ pc'["w1"] = "idle" =>
        /\ Len(log') = Len(log)
        /\ \A i \in 1..Len(log) :
              IF log[i].type = "todo" /\ log[i].ts = local["w1"].todo_ts
              THEN SameButStatus(log[i], log'[i])
              ELSE log'[i] = log[i]]_vars

\* a todo was amended in a log that holds another todo and a mutate entry
C12_Witness ==
    /\ pc["w1"] = "idle"
    /\ \E i, j, k \in 1..Len(log) :
          /\ log[i].type = "todo" /\ log[i].done /\ log[i].comment = <<"k">>
          /\ log[j].type = "todo" /\ ~log[j].done /\ log[j].ts # log[i].ts
          /\ log[k].type = "mutate"

(* C13  An entry appended while a todo amendment runs is not lost and not   *)
(* doubled: no step takes an entry out of the log or changes more than its  *)
(* done and comment, and no step adds more than one entry.                  *)
C13_AppendSurvivesAmend ==
    [][/\ Len(log') \in {Len(log), Len(log) + 1}
       /\ \A i \in 1..Len(log) : SameButStatus(log[i], log'[i])]_vars

\* an event_type of "" filters nothing, as none does
Filtered(event_type) == event_type # None /\ event_type[1] # ""

\* how often e is in seq
Count(seq, e) == Cardinality({i \in 1..Len(seq) : seq[i] = e})

\* out is the tail of lg for limit and event_type
TailOk(lg, out, limit, event_type) ==
    LET matching == {i \in 1..Len(lg) :
                        Filtered(event_type) => lg[i].type = event_type[1]}
        n == Cardinality(matching)
    IN  /\ Len(out) = IF limit > 0 /\ limit < n THEN limit ELSE n
        /\ \A k \in 1..Len(out) :
              /\ \E i \in matching : out[k] = lg[i]
              /\ Count(out, out[k]) <= Count(lg, out[k])
        /\ \A k \in 1..(Len(out) - 1) : out[k].ts >= out[k + 1].ts
        /\ \A i \in matching :
              (\E k \in 1..Len(out) : out[k].ts < lg[i].ts)
                  => \E k \in 1..Len(out) : out[k] = lg[i]

(* C19  dev_get_logs and api_logs return the last `limit` of the entries    *)
(* that match the filter, the most recent first: all of them when limit is  *)
(* not positive, none when there is no log; every entry returned is in the  *)
(* log, and no matching entry newer than one returned is left out.          *)
C19_TailIsLastEntries ==
    [][/\ \A limit \in LimitArgs, event_type \in TypeArgs :
             DevGetLogs(limit, event_type)
                 => TailOk(log, result'.data[1].entries, limit, event_type)
       /\ \A limit \in LimitArgs :
             ApiLogs(limit)
                 => TailOk(log, result'.data[1].entries, limit, None)]_vars

\* the two most recent entries were read from a log whose lines are not in
\* the order of their ts
C19_Witness ==
    /\ Len(log) = 3
    /\ log[1].ts > log[2].ts
    /\ result = Ok([entries |-> <<log[3], log[1]>>])

-----------------------------------------------------------------------------
(* What holds of the store.                                                 *)

(* C14  A document is saved as a whole: a read of a campaign while it is    *)
(* being saved gives the old or the new document, never an empty or half    *)
(* written file, on which the read fails with JSONDecodeError.              *)
C14_ReadSeesWholeDocument == result.err # "JSONDecodeError"

(* C15  One document per campaign id: a call of mutate that went through    *)
(* for one id leaves the document of every other id as it was, also of ids  *)
(* whose safe characters are the same.                                      *)
C15_OneDocumentPerId ==
    [][Len(log') > Len(log) /\ log'[Len(log')].type = "mutate" =>
        \A b \in CampaignIds \ {log'[Len(log')].campaign_id} :
            load_campaign(store', b) = load_campaign(store, b)]_vars

-----------------------------------------------------------------------------
(* What holds of notes.                                                     *)

IsNoteEntry(e) ==
    e.type = "mutate"
    /\ e.op \in {"note_append", "char_note_add", "campaign_note_add"}

\* the notes that the logged call e added to, as they are in st
NotesAt(st, e) ==
    LET data == st[campaign_path(e.campaign_id)][1]
    IN  IF e.op = "campaign_note_add" \/ e.char_id = None
        THEN data.notes
        ELSE data.characters[find_character(data, e.char_id[1])].notes

\* the one call in place of the calls logged as e1 and e2
JoinedCall(e1, e2) ==
    Call(e2.campaign_id, e2.op, e2.char_id, None,
         Some(e1.text[1] \o <<"\n">> \o e2.text[1]), JNull)

\* the store when call was the only call made
AfterOnly(call) == StoreAfter(InitStore, call, Outcome(InitStore, call))

\* the first two calls added to the same notes, which were not empty
TwoAppends ==
    /\ Len(log) = 1 /\ Len(log') = 2
    /\ IsNoteEntry(log'[1]) /\ IsNoteEntry(log'[2])
    /\ log'[1].op = log'[2].op
    /\ campaign_path(log'[1].campaign_id) = campaign_path(log'[2].campaign_id)
    /\ log'[1].char_id = log'[2].char_id
    /\ OrText(NotesAt(InitStore, log'[1])) # <<>>

(* C16  As the specification has it: on notes that are not empty, adding a  *)
(* and then b in two calls gives the text that one call adding a, a newline *)
(* and b gives.                                                             *)
C16_TwoAppendsAreOne ==
    [][TwoAppends =>
        NotesAt(store', log'[2])
            = NotesAt(AfterOnly(JoinedCall(log'[1], log'[2])), log'[2])]_vars

(* C16  As the code has it: on notes that are not empty, adding a and then  *)
(* b in two calls gives the text that one call adding a, a newline and b    *)
(* gives, when a does not end with a newline.                               *)
C16_TwoAppendsAreOneUnlessNewline ==
    [][TwoAppends /\ log'[1].text[1][Len(log'[1].text[1])] # "\n" =>
        NotesAt(store', log'[2])
            = NotesAt(AfterOnly(JoinedCall(log'[1], log'[2])), log'[2])]_vars

\* a and then b were added to the notes of the hero that read x
C16_Witness ==
    /\ Len(log) = 2
    /\ log[1].op = "char_note_add" /\ log[1].text = Some(<<"a">>)
    /\ log[2].op = "char_note_add" /\ log[2].text = Some(<<"b">>)
    /\ store[campaign_path(C1)][1].characters[2].notes
            = Some(<<"x", "\n", "a", "\n", "b">>)

-----------------------------------------------------------------------------
(* What holds of quests and factions.                                       *)

\* the entry that the step has logged
Logged == log'[Len(log')]

\* the step is a call of op on a campaign that went through
Went(op) ==
    /\ Len(log') = Len(log) + 1
    /\ Logged.type = "mutate"
    /\ Logged.op = op

QuestsBefore == OrList(store[campaign_path(Logged.campaign_id)][1].quests)

QuestsAfter == OrList(store'[campaign_path(Logged.campaign_id)][1].quests)

\* the text of a field the value gives
Given(pv, key) == StrOf(pv.f[key])

(* C17  quest_update on a quest that is there changes that quest where it   *)
(* is: title and status when the value gives one that is not null, notes    *)
(* when the value has the key, and nothing else, of this quest or another;  *)
(* for an id that is not there it adds one quest at the end, its title the  *)
(* id and its status "open" unless the value gives them.                    *)
C17_QuestUpdatedInPlace ==
    [][Went("quest_update") =>
        LET pv == parsed_value(Logged.value)
            qid == Given(pv, "id")
            found == {i \in 1..Len(QuestsBefore) : QuestsBefore[i].id = qid}
        IN  IF found # {}
            THEN /\ Len(QuestsAfter) = Len(QuestsBefore)
                 /\ \A i \in 1..Len(QuestsBefore) :
                       IF i \in found
                       THEN /\ QuestsAfter[i].id = qid
                            /\ QuestsAfter[i].title =
                                  IF Has(pv, "title") /\ pv.f["title"] # JNull
                                  THEN Given(pv, "title")
                                  ELSE QuestsBefore[i].title
                            /\ QuestsAfter[i].status =
                                  IF Has(pv, "status") /\ pv.f["status"] # JNull
                                  THEN Given(pv, "status")
                                  ELSE QuestsBefore[i].status
                            /\ QuestsAfter[i].notes =
                                  IF Has(pv, "notes") THEN pv.f["notes"]
                                  ELSE QuestsBefore[i].notes
                       ELSE QuestsAfter[i] = QuestsBefore[i]
            ELSE QuestsAfter =
                    Append(QuestsBefore,
                           [id |-> qid,
                            title |-> IF Has(pv, "title")
                                      THEN Given(pv, "title") ELSE qid,
                            status |-> IF Has(pv, "status")
                                       THEN Given(pv, "status") ELSE "open",
                            notes |-> Get(pv, "notes", JNull)])]_vars

\* the quest that was there got notes, which a null then took away; a title of
\* null left its title
C17_Witness ==
    /\ Len(log) = 3
    /\ log[1].value = Obj2("id", Word("q1"), "notes", Word("seen"))
    /\ log[2].value = Obj2("id", Word("q1"), "notes", JNull)
    /\ log[3].value = Obj2("id", Word("q1"), "title", JNull)
    /\ \A i \in 1..3 : campaign_path(log[i].campaign_id) = campaign_path(C1)
    /\ store[campaign_path(C1)][1].quests
            = Some(<<[id |-> "q1", title |-> "Find", status |-> "open",
                      notes |-> JNull]>>)

\* the delta of a logged faction_rep_add
LoggedDelta(e) == IntOf(Get(parsed_value(e.value), "delta", JInt(0))).n

\* the sum of the deltas of the logged calls for faction fid of the document
RECURSIVE LoggedRep(_, _, _)
LoggedRep(lg, path, fid) ==
    IF lg = <<>> THEN 0
    ELSE LoggedRep(SubSeq(lg, 1, Len(lg) - 1), path, fid)
         + (IF /\ lg[Len(lg)].type = "mutate"
               /\ lg[Len(lg)].op = "faction_rep_add"
               /\ campaign_path(lg[Len(lg)].campaign_id) = path
               /\ Given(parsed_value(lg[Len(lg)].value), "id") = fid
            THEN LoggedDelta(lg[Len(lg)]) ELSE 0)

\* the rep of faction fid among factions, 0 when it is not there
RepOf(factions, fid) ==
    IF \E i \in 1..Len(factions) : factions[i].id = fid
    THEN (CHOOSE f \in {factions[i] : i \in 1..Len(factions)} : f.id = fid).rep
    ELSE 0

FactionIds == {"f1"}

(* C18  After any run of faction_rep_add the rep of a faction is the rep it *)
(* had at first (0 if it was not there) and the sum of the deltas, a call   *)
(* without delta adding 0; and after each call that gives a name the        *)
(* faction has that name.                                                   *)
C18_RepIsSumAndNameIsLast ==
    /\ [](\A p \in Docs, fid \in FactionIds :
            RepOf(OrList(store[p][1].factions), fid)
                = RepOf(OrList(InitStore[p][1].factions), fid)
                  + LoggedRep(log, p, fid))
    /\ [][Went("faction_rep_add") /\ Has(parsed_value(Logged.value), "name") =>
            \E f \in {OrList(store'[campaign_path(Logged.campaign_id)][1].factions)[i] :
                        i \in 1..Len(OrList(store'[campaign_path(Logged.campaign_id)][1].factions))} :
                /\ f.id = Given(parsed_value(Logged.value), "id")
                /\ f.name = Given(parsed_value(Logged.value), "name")]_vars

\* the guild of c2 gained 2, a call without delta named it, and it lost 3 under
\* a third name
C18_Witness ==
    /\ Len(log) = 3
    /\ log[1].value = Obj2("id", Word("f1"), "delta", JInt(2))
    /\ log[2].value = Obj2("id", Word("f1"), "name", Word("Guild"))
    /\ log[3].value = ThievesJson
    /\ \A i \in 1..3 : campaign_path(log[i].campaign_id) = campaign_path(C2)
    /\ store[campaign_path(C2)][1].factions
            = Some(<<[id |-> "f1", name |-> "Thieves", rep |-> 0]>>)

-----------------------------------------------------------------------------
(* What holds of the order in which mutate looks at a call.                 *)

NotFoundErrors == {"FileNotFoundError", "KeyError"}

\* the campaign of the call has a character of the call's char_id
HasCharacter(call) ==
    \E ch \in {store[campaign_path(call.campaign_id)][1].characters[i] :
                i \in 1..Len(store[campaign_path(call.campaign_id)][1].characters)} :
        ch.id = call.char_id[1]

(* C20  mutate reports the first defect of a call: a campaign that is not   *)
(* there before anything else; then a char_id that is given and names no    *)
(* character of the campaign, for every op and also for those that touch no *)
(* character; the op name and the fields of the op only after these.        *)
C20_ChecksInOrder ==
    [][\A call \in OrderCalls :
          Mutate(call) =>
            IF campaign_path(call.campaign_id) \notin DOMAIN store
            THEN result'.err = "FileNotFoundError"
            ELSE IF call.char_id # None /\ ~HasCharacter(call)
            THEN result'.err = "KeyError"
            ELSE result'.err \notin NotFoundErrors]_vars

\* after a call that went through, a call for a character that is not there
\* was turned down
C20_Witness == result.err = "KeyError" /\ Len(log) = 1

-----------------------------------------------------------------------------
(* What a call for a character leaves alone.                                *)

\* the ops that change a character, and the field each of them names
CharacterOps ==
    {"gold_add", "hp_add", "xp_add", "char_note_add", "inventory_add",
     "inventory_remove"}

FieldOf(op) ==
    CASE op = "gold_add" -> "gold"
      [] op = "hp_add" -> "hp"
      [] op = "xp_add" -> "xp"
      [] op = "char_note_add" -> "notes"
      [] op \in {"inventory_add", "inventory_remove"} -> "inventory"

DocBefore == store[campaign_path(Logged.campaign_id)][1]

DocAfter == store'[campaign_path(Logged.campaign_id)][1]

(* C21  A call of gold_add, hp_add, xp_add, char_note_add, inventory_add or *)
(* inventory_remove that went through changes, in the document saved, the   *)
(* field it names of the character of its char_id and nothing else: the     *)
(* other fields of that character, the other characters and the fields of   *)
(* the campaign are as they were.                                           *)
C21_CharacterOpChangesOneField ==
    [][Len(log') = Len(log) + 1 /\ Logged.type = "mutate"
            /\ Logged.op \in CharacterOps =>
        /\ DOMAIN DocAfter = DOMAIN DocBefore
        /\ \A k \in DOMAIN DocBefore \ {"characters"} :
              DocAfter[k] = DocBefore[k]
        /\ Len(DocAfter.characters) = Len(DocBefore.characters)
        /\ \E i \in 1..Len(DocBefore.characters) :
              /\ DocBefore.characters[i].id = Logged.char_id[1]
              /\ \A j \in 1..Len(DocBefore.characters) :
                    /\ DOMAIN DocAfter.characters[j]
                          = DOMAIN DocBefore.characters[j]
                    /\ \A k \in DOMAIN DocBefore.characters[j] :
                          j # i \/ k # FieldOf(Logged.op) =>
                            DocAfter.characters[j][k]
                                = DocBefore.characters[j][k]]_vars

\* the second hero got a note and then a torch; the note is there, the torches
\* are three, and the rest of the document is as it was at first
C21_Witness ==
    /\ Len(log) = 2
    /\ log[1].type = "mutate" /\ log[1].op = "char_note_add"
    /\ log[2].type = "mutate" /\ log[2].op = "inventory_add"
    /\ store[campaign_path(C1)]
          = Some([Doc1 EXCEPT
                    !.characters[2].notes = Some(<<"x", "\n", "a">>),
                    !.characters[2].inventory = Some(<<[Torch EXCEPT !.qty = 3]>>)])

====
